---- MODULE Spec2Model ----
(***************************************************************************)
(* VISA and MasterCard Trace Validator (app.py).                           *)
(*                                                                         *)
(* The script reads a trace file line by line into a list of messages      *)
(* (the parser loop), counts the messages per MTI, and validates the       *)
(* mandatory fields of every transactional message (the validation loop),  *)
(* using detect_scheme, get_mandatory_fields and validate_field.           *)
(*                                                                         *)
(* A Python str is a sequence of one-character strings, so that strip,     *)
(* isdigit, isalnum, len and str(int(..)) are computed, not assumed.       *)
(***************************************************************************)
EXTENDS Integers, Sequences, FiniteSets, TLC

VARIABLES
    data_elements,    \* the specification table, in file order
    pc,               \* "parse", "validate", "done" (script position) or "call"/"returned"
    lineNo,           \* number of lines read so far
    messages,         \* the list of messages, each [mti, fields]
    current_message,  \* index into messages of the current message, 0 for None
    nested_field,     \* key of the active nested field, or None
    mti_counts,       \* MTI -> number of messages
    selected_mtis,    \* the MTIs picked in the multiselect
    msgIdx,           \* number of messages of the list the validation loop has taken
    reports,          \* one record per message the validation loop has taken
    total_mtis,
    mtis_with_errors,
    mtis_clean,
    call,             \* arguments and result of a direct call of one of the functions
    tracking          \* history of the scan: how nested-field tracking came to its
                      \* present value (read by no action, only by the properties)

vars == <<data_elements, pc, lineNo, messages, current_message, nested_field,
          mti_counts, selected_mtis, msgIdx, reports, total_mtis,
          mtis_with_errors, mtis_clean, call, tracking>>

-----------------------------------------------------------------------------
(* Bounds of the model *)

MaxLines == 4
MaxMsgs == 2

-----------------------------------------------------------------------------
(* Python str and its methods *)

\* None where a str (or a key) is expected; no str equals it, its only
\* element is not a single character
None == <<"None">>

DigitChars == {"0", "1", "2", "3", "4", "5", "6", "7", "8", "9"}
LetterChars == {"A", "B", "C", "F", "X"}
SpaceChars == {" "}

DigitVal(c) ==
    CASE c = "0" -> 0 [] c = "1" -> 1 [] c = "2" -> 2 [] c = "3" -> 3
      [] c = "4" -> 4 [] c = "5" -> 5 [] c = "6" -> 6 [] c = "7" -> 7
      [] c = "8" -> 8 [] c = "9" -> 9

DigitChar(d) ==
    CASE d = 0 -> "0" [] d = 1 -> "1" [] d = 2 -> "2" [] d = 3 -> "3"
      [] d = 4 -> "4" [] d = 5 -> "5" [] d = 6 -> "6" [] d = 7 -> "7"
      [] d = 8 -> "8" [] d = 9 -> "9"

\* str.isdigit(): at least one character and all of them digits
isdigit(s) == Len(s) > 0 /\ \A i \in 1..Len(s) : s[i] \in DigitChars

\* str.isalnum(): at least one character and all of them letters or digits
isalnum(s) == Len(s) > 0 /\ \A i \in 1..Len(s) : s[i] \in DigitChars \cup LetterChars

RECURSIVE lstrip(_)
lstrip(s) == IF Len(s) > 0 /\ Head(s) \in SpaceChars THEN lstrip(Tail(s)) ELSE s

RECURSIVE rstrip(_)
rstrip(s) ==
    IF Len(s) > 0 /\ s[Len(s)] \in SpaceChars THEN rstrip(SubSeq(s, 1, Len(s) - 1)) ELSE s

\* str.strip()
strip(s) == rstrip(lstrip(s))

\* int(s) for a str of digits
RECURSIVE int(_)
int(s) == IF Len(s) = 0 THEN 0 ELSE 10 * int(SubSeq(s, 1, Len(s) - 1)) + DigitVal(s[Len(s)])

\* str(n) for n >= 0
RECURSIVE str(_)
str(n) == IF n < 10 THEN <<DigitChar(n)>> ELSE Append(str(n \div 10), DigitChar(n % 10))

\* s[:n]
Prefix(s, n) == SubSeq(s, 1, IF Len(s) < n THEN Len(s) ELSE n)

\* s[-n:]
Suffix(s, n) == SubSeq(s, IF Len(s) < n THEN 1 ELSE Len(s) - n + 1, Len(s))

\* re.sub(r"\D", "", s)
digitsOnly(s) == SelectSeq(s, LAMBDA c : c \in DigitChars)

\* s.zfill(n) for a str without sign
\* variant: no padding
zfill_none(s, n) == s

RECURSIVE zfill(_, _)
zfill(s, n) == IF Len(s) >= n THEN s ELSE zfill(<<"0">> \o s, n)

-----------------------------------------------------------------------------
(* Keys and literals of the script *)

K_MTI == <<"M", "T", "I">>
K_all == <<"a", "l", "l">>
K12 == <<"1", "2">>
K13 == <<"1", "3">>
K22 == <<"2", "2">>
K25 == <<"2", "5">>
K38 == <<"3", "8">>
K39 == <<"3", "9">>
K42 == <<"4", "2">>
K55 == <<"5", "5">>
K100 == <<"1", "0", "0">>
K126 == <<"1", "2", "6">>

S00 == <<"0", "0">>
S01 == <<"0", "1">>
S02 == <<"0", "2">>

M0110 == <<"0", "1", "1", "0">>
M0200 == <<"0", "2", "0", "0">>
M0210 == <<"0", "2", "1", "0">>
M0230 == <<"0", "2", "3", "0">>
M0430 == <<"0", "4", "3", "0">>
M0800 == <<"0", "8", "0", "0">>
M0810 == <<"0", "8", "1", "0">>
M0820 == <<"0", "8", "2", "0">>

\* the literals tested at the nested field start: "FLD (055)", "FLD (062)", "FLD (063)"
NestedLiteralTokens == {<<"0", "5", "5">>, <<"0", "6", "2">>, <<"0", "6", "3">>}

-----------------------------------------------------------------------------
(* Field values of a message: a str, or a dict of sub-tags in insertion order *)

Scalar(s) == [t |-> "Scalar", v |-> s]
Nested(d) == [t |-> "Nested", v |-> d]

\* isinstance(value, dict)
IsDict(x) == x.t = "Nested"

\* d[k] = v on a dict with keys k
SetField(d, k, v) == [x \in DOMAIN d \cup {k} |-> IF x = k THEN v ELSE d[x]]

\* d[tag] = value on an insertion-ordered dict, kept as a sequence of <<tag, value>>
SetTag(d, tag, value) ==
    IF \E i \in 1..Len(d) : d[i][1] = tag
    THEN [i \in 1..Len(d) |-> IF d[i][1] = tag THEN <<tag, value>> ELSE d[i]]
    ELSE Append(d, <<tag, value>>)

\* a dict without keys
EmptyDict == <<>>

-----------------------------------------------------------------------------
(* Trace lines. A stripped line is given by what the tests and the regular *)
(* expressions of the parser loop read from it:                            *)
(*   gt   the line starts with ">"                                         *)
(*   hdr  "M.T.I" occurs in the line                                       *)
(*   fld  "FLD" occurs in the line                                         *)
(*   sep  the number of blanks between "FLD" and the following "("         *)
(*   num  the digits in the parentheses after "FLD", or None               *)
(*   len  a second group "(digits)" or "(LLVAR)" follows the first         *)
(*   tag  the text in the first parentheses of the line, or None           *)
(*   br   the text in the first brackets after them, or None               *)
(***************************************************************************)

Line(gt, hdr, fld, sep, num, len, tag, br) ==
    [gt |-> gt, hdr |-> hdr, fld |-> fld, sep |-> sep, num |-> num, len |-> len,
     tag |-> tag, br |-> br]

\* "M.T.I : [mti]"
HeaderLine(mti) == Line(FALSE, TRUE, FALSE, 0, None, FALSE, None, mti)
\* "FLD (num) (len) [value]"
FieldLine(num, value) == Line(FALSE, FALSE, TRUE, 1, num, TRUE, num, value)
\* "FLD (num) (LLVAR)"
StartLine(num) == Line(FALSE, FALSE, TRUE, 1, num, TRUE, num, None)
\* "> (tag) : [value]"
TagLine(tag, value) == Line(TRUE, FALSE, FALSE, 0, None, FALSE, tag, value)

\* variant: any bracketed text is taken for the MTI
mti_search_anyText(line) == IF line.br # None THEN line.br ELSE None

\* re.search(r"\[(\d+)\]", line): the bracketed digits, or None
mti_search(line) == IF line.br # None /\ isdigit(line.br) THEN line.br ELSE None

\* "FLD (055)" in line or "FLD (062)" in line or "FLD (063)" in line
HasNestedLiteral(line) == line.fld /\ line.sep = 1 /\ line.num \in NestedLiteralTokens

\* nested_start_pattern.search(line): group 1, or None
nested_start_pattern(line) ==
    IF line.fld /\ line.num # None /\ isdigit(line.num) /\ line.len THEN line.num ELSE None

\* fld_pattern.search(line): groups 1 and 3, or None
fld_pattern(line) ==
    IF nested_start_pattern(line) # None /\ line.br # None
    THEN <<line.num, line.br>>
    ELSE None

\* nested_line_pattern.search(line): groups 1 and 2, or None
nested_line_pattern(line) ==
    IF line.tag # None /\ line.br # None THEN <<line.tag, line.br>> ELSE None

V_ABC123 == <<"A", "B", "C", "1", "2", "3">>
V_AB == <<" ", "A", "B", " ">>
V_ABx123 == <<"A", "B", "-", "1", "2", "3">>
V_X == <<"X">>
V_05 == <<"0", "5">>
T_9F26 == <<"9", "F", "2", "6">>
T_9F27 == <<"9", "F", "2", "7">>

Lines ==
    { HeaderLine(M0210), HeaderLine(M0110), HeaderLine(M0800),
      HeaderLine(<<"n", "o", "n", "e">>),                   \* "M.T.I : [none]"
      FieldLine(<<"0", "3", "9">>, S00),                    \* "FLD (039) (2) [00]"
      FieldLine(<<"0", "3", "9">>, V_05),                   \* "FLD (039) (2) [05]"
      FieldLine(<<"0", "3", "8">>, V_ABC123),               \* "FLD (038) (6) [ABC123]"
      FieldLine(<<"0", "3", "8">>, V_AB),                   \* "FLD (038) (6) [ AB ]"
      FieldLine(<<"0", "3", "8">>, V_ABx123),               \* "FLD (038) (6) [AB-123]"
      FieldLine(<<"0", "3", "8">>, <<>>),                   \* "FLD (038) (6) []"
      FieldLine(K126, V_X),                                 \* "FLD (126) (LLVAR) [X]"
      FieldLine(K126, <<>>),                                \* "FLD (126) (LLVAR) []"
      StartLine(<<"0", "5", "5">>),                         \* "FLD (055) (LLVAR)"
      FieldLine(K55, V_X),                                  \* "FLD (55) (1) [X]"
      TagLine(T_9F26, V_AB),                                \* "> (9F26) : [ AB ]"
      TagLine(T_9F27, S00),                                 \* "> (9F27) : [00]"
      Line(TRUE, FALSE, TRUE, 1, <<"0", "3", "8">>, TRUE, <<"0", "3", "8">>, V_ABC123),
                                                            \* "> FLD (038) (6) [ABC123]"
      FieldLine(K39, S01),                                  \* "FLD (39) (2) [01]"
      Line(TRUE, FALSE, TRUE, 1, K55, TRUE, K55, V_X),      \* "> FLD (55) (1) [X]"
      Line(FALSE, FALSE, TRUE, 1, <<"0", "5", "5">>, FALSE, <<"0", "5", "5">>, None),
                                                            \* "FLD (055) junk"
      Line(TRUE, FALSE, FALSE, 0, None, FALSE, None, None), \* "> junk"
      Line(FALSE, FALSE, TRUE, 0, None, FALSE, None, None), \* "FLD junk"
      Line(FALSE, FALSE, FALSE, 0, None, FALSE, None, None) \* "-----"
    }

-----------------------------------------------------------------------------
(* The parser loop *)

Message(mti, fields) == [mti |-> mti, fields |-> fields]

\* current_message["fields"][k] = v
SetCurrentField(k, v) ==
    [messages EXCEPT ![current_message].fields = SetField(@, k, v)]

\* variant: only the first header makes its message the current one
ParseHeader_keepsCurrent(line) ==
    LET mti_match == mti_search(line) IN
    IF mti_match # None
    THEN /\ Len(messages) < MaxMsgs
         /\ messages' = Append(messages,
                               Message(mti_match, SetField(EmptyDict, K_MTI, Scalar(mti_match))))
         /\ current_message' = IF current_message = 0 THEN 1 ELSE current_message
         /\ nested_field' = None
    ELSE UNCHANGED <<messages, current_message, nested_field>>

\* "M.T.I" in line: a header with a bracketed number starts a message
ParseHeader(line) ==
    LET mti_match == mti_search(line) IN
    IF mti_match # None
    THEN /\ Len(messages) < MaxMsgs
         /\ messages' = Append(messages,
                               Message(mti_match, SetField(EmptyDict, K_MTI, Scalar(mti_match))))
         /\ current_message' = Len(messages) + 1
         /\ nested_field' = None
    ELSE UNCHANGED <<messages, current_message, nested_field>>

\* the nested field start
ParseNestedStart(line) ==
    LET fld_match == nested_start_pattern(line) IN
    IF fld_match # None
    THEN /\ nested_field' = str(int(fld_match))
         /\ messages' = SetCurrentField(str(int(fld_match)), Nested(EmptyDict))
         /\ UNCHANGED current_message
    ELSE UNCHANGED <<messages, current_message, nested_field>>

\* a ">" line while a nested field is active; nested_data is the dict stored
\* under nested_field in the current message
ParseNestedLine(line) ==
    LET tag_match == nested_line_pattern(line) IN
    IF tag_match # None
    THEN /\ messages' = [messages EXCEPT ![current_message].fields[nested_field].v =
                            SetTag(@, strip(tag_match[1]), strip(tag_match[2]))]
         /\ UNCHANGED <<current_message, nested_field>>
    ELSE UNCHANGED <<messages, current_message, nested_field>>

\* variant: the field number token is used as the key as it is written
ParseRegular_rawKey(line) ==
    LET match == fld_pattern(line) IN
    /\ nested_field' = IF line.fld /\ ~line.gt THEN None ELSE nested_field
    /\ messages' = IF match # None
                   THEN SetCurrentField(match[1], Scalar(strip(match[2])))
                   ELSE messages
    /\ UNCHANGED current_message

\* variant: nested_field is reset by every line that reaches the regular field
ParseRegular_alwaysReset(line) ==
    LET match == fld_pattern(line) IN
    /\ nested_field' = None
    /\ messages' = IF match # None
                   THEN SetCurrentField(str(int(match[1])), Scalar(strip(match[2])))
                   ELSE messages
    /\ UNCHANGED current_message

\* the reset of nested_field, then the regular field
ParseRegular(line) ==
    LET match == fld_pattern(line) IN
    /\ nested_field' = IF line.fld /\ ~line.gt THEN None ELSE nested_field
    /\ messages' = IF match # None
                   THEN SetCurrentField(str(int(match[1])), Scalar(strip(match[2])))
                   ELSE messages
    /\ UNCHANGED current_message

\* the history of the scan after the line: a message was started ("header",
\* or "header_reset" when a nested field n was active), a nested field n is
\* active ("nested"), or the nesting of n was ended by a flat field line
\* ("field") or by another line ("other")
Tracking(by, n) == [by |-> by, n |-> n]
Track(line) ==
    IF Len(messages') > Len(messages)
    THEN Tracking(IF nested_field # None THEN "header_reset" ELSE "header", nested_field)
    ELSE IF nested_field' # None THEN Tracking("nested", nested_field')
    ELSE IF nested_field # None
    THEN Tracking(IF fld_pattern(line) # None THEN "field" ELSE "other", nested_field)
    ELSE tracking

\* one iteration of the loop over the lines of the file
ParseLine(line) ==
    /\ pc = "parse"
    /\ lineNo < MaxLines
    /\ lineNo' = lineNo + 1
    /\ IF line.hdr THEN ParseHeader(line)
       ELSE IF current_message = 0 THEN UNCHANGED <<messages, current_message, nested_field>>
       ELSE IF HasNestedLiteral(line) THEN ParseNestedStart(line)
       ELSE IF nested_field # None /\ line.gt THEN ParseNestedLine(line)
       ELSE ParseRegular(line)
    /\ tracking' = Track(line)
    /\ UNCHANGED <<data_elements, pc, mti_counts, selected_mtis, msgIdx, reports,
                   total_mtis, mtis_with_errors, mtis_clean, call>>

-----------------------------------------------------------------------------
(* The specification table: data_elements, a dict in file order, kept as a *)
(* sequence of [num, rule]; a rule has Length, Format and Usage.           *)
(***************************************************************************)

Rule(length, format, usage) == [Length |-> length, Format |-> format, Usage |-> usage]
Entry(num, rule) == [num |-> num, rule |-> rule]

\* dict.get(k) on a dict of strs, "None" when k is not a key
Get(d, k) == IF k \in DOMAIN d THEN d[k] ELSE "None"

\* data_elements.get(field_num), NoRule when there is none
NoRule == [Length |-> None, Format |-> "None", Usage |-> <<>>]
RuleOf(table, field_num) ==
    IF \E i \in 1..Len(table) : table[i].num = field_num
    THEN table[CHOOSE i \in 1..Len(table) : table[i].num = field_num].rule
    ELSE NoRule

\* usage.get("all") == "M" or usage.get(mti) == "M"
IsMandatoryUsage(usage, mti) == Get(usage, K_all) = "M" \/ Get(usage, mti) = "M"

-----------------------------------------------------------------------------
(* detect_scheme *)

\* variant: the value under "126" is tested, not the key
detect_scheme_truthy(fields) ==
    IF K126 \in DOMAIN fields /\ fields[K126].v # <<>> THEN "Mastercard" ELSE "Visa"

detect_scheme(fields) == IF K126 \in DOMAIN fields THEN "Mastercard" ELSE "Visa"

-----------------------------------------------------------------------------
(* validate_field *)

NoIssue == "None"

\* "not value" for a str or None
Falsy(value) == value = None \/ value = <<>>

\* field_values["39"] when field_values is given and has the key, else None
ResponseCode(field_values) ==
    IF DOMAIN field_values # {} /\ K39 \in DOMAIN field_values
    THEN field_values[K39]
    ELSE Scalar(None)

\* rc == "00"
IsApproved(rc) == rc.t = "Scalar" /\ rc.v = S00

\* variant: the rule of DE 38 is enforced for every Visa message
ValidateDE38Visa_always(value, mti, field_values) ==
    IF Falsy(value) \/ Len(value) # 6 \/ ~isalnum(value)
    THEN "Invalid DE 38 for Visa: must be 6 alphanumeric chars in approved responses"
    ELSE NoIssue

\* DE 38 for Visa
ValidateDE38Visa(value, mti, field_values) ==
    LET rc == ResponseCode(field_values) IN
    IF /\ mti \in {M0210, M0230, M0430}
       /\ IsApproved(rc)
       /\ (Falsy(value) \/ Len(value) # 6 \/ ~isalnum(value))
    THEN "Invalid DE 38 for Visa: must be 6 alphanumeric chars in approved responses"
    ELSE NoIssue

\* DE 38 for Mastercard
ValidateDE38Mastercard(value) ==
    IF Falsy(value) \/ Len(value) # 6 THEN "Invalid DE 38 for Mastercard: must be 6 chars"
    ELSE IF ~isalnum(value)
    THEN "Invalid DE 38 for Mastercard: must be alphanumeric/numeric"
    ELSE NoIssue

\* variant: "02" is left out of the response codes
ValidateGeneric_no02(field_num, rule, value) ==
    IF isdigit(rule.Length) /\ Len(value) # int(rule.Length) THEN "Invalid length"
    ELSE IF rule.Format = "n" /\ ~isdigit(value) THEN "Invalid format: expected numeric"
    ELSE IF rule.Format = "an" /\ ~isalnum(value)
    THEN "Invalid format: expected alphanumeric"
    ELSE IF field_num = K39 /\ value \notin {S00, S01} THEN "Invalid response code"
    ELSE NoIssue

\* the generic validation of a value against its rule
ValidateGeneric(field_num, rule, value) ==
    IF isdigit(rule.Length) /\ Len(value) # int(rule.Length) THEN "Invalid length"
    ELSE IF rule.Format = "n" /\ ~isdigit(value) THEN "Invalid format: expected numeric"
    ELSE IF rule.Format = "an" /\ ~isalnum(value)
    THEN "Invalid format: expected alphanumeric"
    ELSE IF field_num = K39 /\ value \notin {S00, S01, S02} THEN "Invalid response code"
    ELSE NoIssue

\* the special cases by field number, then the generic validation
ValidateSpecial(field_num, rule, value, mti, scheme, field_values) ==
    IF field_num = K42
    THEN IF strip(value) = <<>> THEN "Missing mandatory field" ELSE NoIssue
    ELSE IF field_num = K12
    THEN LET clean_value == Suffix(digitsOnly(value), 6) IN
         IF ~isdigit(clean_value) \/ Len(clean_value) # 6
         THEN "Invalid length: expected 6" ELSE NoIssue
    ELSE IF field_num = K13
    THEN LET clean_value == Suffix(digitsOnly(value), 4) IN
         IF ~isdigit(clean_value) \/ Len(clean_value) # 4
         THEN "Invalid length: expected 4" ELSE NoIssue
    ELSE IF field_num = K22
    THEN LET clean_value == Prefix(strip(value), 4) IN
         IF ~isdigit(clean_value) \/ Len(clean_value) \notin {3, 4}
         THEN "Invalid length: expected 3 or 4" ELSE NoIssue
    ELSE IF field_num = K25
    THEN LET cut == Prefix(strip(value), 2)
             clean_value == IF Len(cut) = 1 THEN zfill(cut, 2) ELSE cut IN
         IF ~isdigit(clean_value) \/ Len(clean_value) # 2
         THEN "Invalid format/length: expected 2 digits" ELSE NoIssue
    ELSE IF field_num = K38 /\ scheme = "Visa"
    THEN ValidateDE38Visa(value, mti, field_values)
    ELSE IF field_num = K38 /\ scheme = "Mastercard"
    THEN ValidateDE38Mastercard(value)
    ELSE IF field_num = K100
    THEN IF strip(value) = <<>> THEN "Missing mandatory field"
         ELSE IF ~isalnum(value) THEN "Invalid format: expected alphanumeric"
         ELSE IF Len(value) > 15 THEN "Invalid length: expected up to 15"
         ELSE NoIssue
    ELSE ValidateGeneric(field_num, rule, value)

\* validate_field(field_num, length, value, mti, scheme, field_values) against
\* the table; field_values is the empty dict where the caller gives none
validate_field(table, field_num, length, value, mti, scheme, field_values) ==
    LET rule == RuleOf(table, field_num) IN
    IF rule = NoRule THEN NoIssue
    ELSE IF IsMandatoryUsage(rule.Usage, mti) /\ Falsy(value) THEN "Missing mandatory field"
    ELSE ValidateSpecial(field_num, rule, value, mti, scheme, field_values)

-----------------------------------------------------------------------------
(* get_mandatory_fields *)

\* variant: without the special rule of DE 126
IsMandatory_no126(field_num, usage, mti, scheme, field_values) ==
    /\ IsMandatoryUsage(usage, mti)
    /\ ~(field_num = K38 /\ scheme = "Visa" /\ ~IsApproved(ResponseCode(field_values)))

\* variant: DE 38 is skipped for Visa only when a response code is captured
\* and is not "00"
IsMandatory_rcAbsent(field_num, usage, mti, scheme, field_values) ==
    /\ IsMandatoryUsage(usage, mti)
    /\ ~(field_num = K126 /\ mti \notin {M0210, M0110, M0430})
    /\ ~(field_num = K38 /\ scheme = "Visa" /\ K39 \in DOMAIN field_values
                        /\ ~IsApproved(ResponseCode(field_values)))

\* whether the loop appends the entry of field_num with this usage
IsMandatory(field_num, usage, mti, scheme, field_values) ==
    /\ IsMandatoryUsage(usage, mti)
    /\ ~(field_num = K126 /\ mti \notin {M0210, M0110, M0430})
    /\ ~(field_num = K38 /\ scheme = "Visa" /\ ~IsApproved(ResponseCode(field_values)))

get_mandatory_fields(table, mti, scheme, field_values) ==
    LET kept == SelectSeq(table,
                    LAMBDA e : IsMandatory(e.num, e.rule.Usage, mti, scheme, field_values))
    IN [i \in 1..Len(kept) |-> kept[i].num]

-----------------------------------------------------------------------------
(* The MTI counts and the multiselect *)

\* mti_counts[mti] = mti_counts.get(mti, 0) + 1, for the messages in order
RECURSIVE CountMtis(_)
CountMtis(msgs) ==
    IF msgs = <<>> THEN EmptyDict
    ELSE LET counts == CountMtis(SubSeq(msgs, 1, Len(msgs) - 1))
             mti == msgs[Len(msgs)].mti
         IN SetField(counts, mti, (IF mti \in DOMAIN counts THEN counts[mti] ELSE 0) + 1)

\* [msg for msg in messages if msg["mti"] in selected_mtis]
filtered_messages == SelectSeq(messages, LAMBDA msg : msg.mti \in selected_mtis)

\* the end of the file: the MTI counts are taken and the MTIs to view selected
\* (all of them by default)
CountMessages ==
    /\ pc = "parse"
    /\ pc' = "validate"
    /\ mti_counts' = CountMtis(messages)
    /\ \E selected \in SUBSET DOMAIN CountMtis(messages) : selected_mtis' = selected
    /\ UNCHANGED <<data_elements, lineNo, messages, current_message, nested_field,
                   msgIdx, reports, total_mtis, mtis_with_errors, mtis_clean, call, tracking>>

-----------------------------------------------------------------------------
(* The validation loop *)

Row(f, value, validation) == [Field |-> f, Value |-> value, Validation |-> validation]
Error(f, value, issue) == [Field |-> f, Value |-> value, Issue |-> issue]

Counts0 ==
    [mandatory_data |-> <<>>, passed_count |-> 0, failed_count |-> 0,
     available_count |-> 0, missing_count |-> 0, errors |-> <<>>]

\* variant: a nested field is not counted as available
CountNested_notAvailable(acc, f, value) ==
    [acc EXCEPT !.mandatory_data =
                    Append(@, Row(f, str(Len(value.v)) \o <<" nested items">>,
                                  "Nested field captured")),
                !.passed_count = @ + 1]

\* a nested field: captured, passed and available
CountNested(acc, f, value) ==
    [acc EXCEPT !.mandatory_data =
                    Append(@, Row(f, str(Len(value.v)) \o <<" nested items">>,
                                  "Nested field captured")),
                !.passed_count = @ + 1,
                !.available_count = @ + 1]

\* variant: a value that fails validation is not counted as failed
CountValue_notFailed(acc, f, value, mti, scheme) ==
    LET issue == validate_field(data_elements, f, str(Len(value.v)), value.v, mti, scheme,
                                EmptyDict) IN
    IF issue = NoIssue
    THEN [acc EXCEPT !.available_count = @ + 1,
                     !.mandatory_data = Append(@, Row(f, value.v, "Passed")),
                     !.passed_count = @ + 1]
    ELSE [acc EXCEPT !.available_count = @ + 1,
                     !.mandatory_data = Append(@, Row(f, value.v, issue)),
                     !.errors = Append(@, Error(f, value.v, issue))]

\* a non-empty value: available, and passed or failed by validate_field, which
\* is called without field_values
CountValue(acc, f, value, mti, scheme) ==
    LET issue == validate_field(data_elements, f, str(Len(value.v)), value.v, mti, scheme,
                                EmptyDict) IN
    IF issue = NoIssue
    THEN [acc EXCEPT !.available_count = @ + 1,
                     !.mandatory_data = Append(@, Row(f, value.v, "Passed")),
                     !.passed_count = @ + 1]
    ELSE [acc EXCEPT !.available_count = @ + 1,
                     !.mandatory_data = Append(@, Row(f, value.v, issue)),
                     !.failed_count = @ + 1,
                     !.errors = Append(@, Error(f, value.v, issue))]

\* variant: a missing field is not counted as failed
CountMissing_notFailed(acc, f) ==
    [acc EXCEPT !.missing_count = @ + 1,
                !.mandatory_data = Append(@, Row(f, <<"Missing">>, "Missing mandatory field")),
                !.errors = Append(@, Error(f, <<"Missing">>, "Missing mandatory field"))]

\* an empty value: missing and failed
CountMissing(acc, f) ==
    [acc EXCEPT !.missing_count = @ + 1,
                !.mandatory_data = Append(@, Row(f, <<"Missing">>, "Missing mandatory field")),
                !.failed_count = @ + 1,
                !.errors = Append(@, Error(f, <<"Missing">>, "Missing mandatory field"))]

\* one iteration of the loop over mandatory_fields
CountField(acc, f, field_values, mti, scheme) ==
    LET value == field_values[f] IN
    IF IsDict(value) THEN CountNested(acc, f, value)
    ELSE IF ~Falsy(value.v) THEN CountValue(acc, f, value, mti, scheme)
    ELSE CountMissing(acc, f)

\* the loop over mandatory_fields
RECURSIVE CountFields(_, _, _, _, _)
CountFields(acc, fs, field_values, mti, scheme) ==
    IF fs = <<>> THEN acc
    ELSE CountFields(CountField(acc, Head(fs), field_values, mti, scheme),
                     Tail(fs), field_values, mti, scheme)

\* [f for f in mandatory_fields if f in field_values]
CapturedOnly(mandatory_fields, field_values) ==
    SelectSeq(mandatory_fields, LAMBDA f : f \in DOMAIN field_values)

\* variant: "0800" is left out of the list
IsExcluded_no0800(mti) == mti \in {M0810, M0820}

\* mti in ["0800", "0810", "0820"]
IsExcluded(mti) == mti \in {M0800, M0810, M0820}

\* the report of message i of the filtered list
Validate(i, msg) ==
    LET mti == msg.mti
        field_values == msg.fields
        scheme == detect_scheme(field_values)
        resolved == get_mandatory_fields(data_elements, mti, scheme, field_values)
        mandatory_fields == CapturedOnly(resolved, field_values)
        acc == CountFields(Counts0, mandatory_fields, field_values, mti, scheme)
    IN [i |-> i, mti |-> mti, scheme |-> scheme, resolved |-> resolved,
        field_values |-> field_values,
        mandatory_fields |-> mandatory_fields,
        mandatory_data |-> acc.mandatory_data,
        passed_count |-> acc.passed_count, failed_count |-> acc.failed_count,
        available_count |-> acc.available_count, missing_count |-> acc.missing_count,
        errors |-> acc.errors]

\* one iteration of the loop over filtered_messages
ValidateMessage ==
    /\ pc = "validate"
    /\ msgIdx < Len(filtered_messages)
    /\ msgIdx' = msgIdx + 1
    /\ LET msg == filtered_messages[msgIdx + 1] IN
       IF IsExcluded(msg.mti)
       THEN UNCHANGED <<reports, total_mtis, mtis_with_errors, mtis_clean>>
       ELSE LET r == Validate(msgIdx + 1, msg) IN
            /\ reports' = Append(reports, r)
            /\ total_mtis' = total_mtis + 1
            /\ mtis_with_errors' = IF r.failed_count > 0 THEN mtis_with_errors + 1
                                   ELSE mtis_with_errors
            /\ mtis_clean' = IF r.failed_count > 0 THEN mtis_clean ELSE mtis_clean + 1
    /\ UNCHANGED <<data_elements, pc, lineNo, messages, current_message, nested_field,
                   mti_counts, selected_mtis, call, tracking>>

\* the global summary after the last message
Summary ==
    /\ pc = "validate"
    /\ msgIdx = Len(filtered_messages)
    /\ pc' = "done"
    /\ UNCHANGED <<data_elements, lineNo, messages, current_message, nested_field,
                   mti_counts, selected_mtis, msgIdx, reports, total_mtis,
                   mtis_with_errors, mtis_clean, call, tracking>>

-----------------------------------------------------------------------------
(* Specification tables *)

U_all == [k \in {K_all} |-> "M"]
U_0210 == [k \in {M0210} |-> "M"]
U_0110 == [k \in {M0110} |-> "M"]
U_opt == [k \in {K_all} |-> "O"]
L_2 == <<"2">>
L_6 == <<"6">>
L_VAR == <<"L", "L", "V", "A", "R">>

\* every field of the traces mandatory for all MTIs
TableAll ==
    << Entry(K38, Rule(L_6, "an", U_all)), Entry(K39, Rule(L_2, "n", U_all)),
       Entry(K55, Rule(L_VAR, "b", U_all)), Entry(K126, Rule(L_VAR, "ans", U_all)) >>

\* usage by MTI; no rule for field 55
TableByMti ==
    << Entry(K39, Rule(L_2, "n", U_opt)), Entry(K126, Rule(L_VAR, "ans", U_0110)),
       Entry(K38, Rule(L_6, "an", U_0210)) >>

Tables == {TableAll, TableByMti}

-----------------------------------------------------------------------------
(* The script on one uploaded file *)

NoCall == [op |-> "none"]

Init ==
    /\ data_elements \in Tables
    /\ pc = "parse"
    /\ lineNo = 0
    /\ messages = <<>>
    /\ current_message = 0
    /\ nested_field = None
    /\ mti_counts = <<>>
    /\ selected_mtis = {}
    /\ msgIdx = 0
    /\ reports = <<>>
    /\ total_mtis = 0
    /\ mtis_with_errors = 0
    /\ mtis_clean = 0
    /\ call = NoCall
    /\ tracking = Tracking("start", None)

Next ==
    \/ \E line \in Lines : ParseLine(line)
    \/ CountMessages
    \/ ValidateMessage
    \/ Summary

Spec == Init /\ [][Next]_vars

-----------------------------------------------------------------------------
(* The functions called directly: detect_scheme, get_mandatory_fields,     *)
(* validate_field and the validation of one message, on arguments drawn    *)
(* from bounded sets.                                                      *)
(***************************************************************************)

U_0200 == [k \in {M0200} |-> "M"]
U_none == <<>>
CallUsages == {U_all, U_0210, U_0110, U_0200, U_opt, U_none}

CallTable(u38, u126) ==
    << Entry(K39, Rule(L_2, "n", U_all)), Entry(K38, Rule(L_6, "an", u38)),
       Entry(K25, Rule(L_2, "n", U_all)), Entry(K126, Rule(L_VAR, "ans", u126)) >>

CallTables == {CallTable(u38, u126) : u38 \in CallUsages, u126 \in CallUsages}

CallMtis == {M0110, M0200, M0210, M0230, M0430, M0800}
Schemes == {"Visa", "Mastercard"}

\* values of a captured field, as the parser stores them (stripped)
V_AB2 == <<"A", "B">>
V_7 == <<"7">>
V_0x == <<"0", "-">>
V_123 == <<"1", "2", "3">>
V_12x == <<"1", "2", "-">>
V_x12 == <<"-", "1", "2">>
V_s7 == <<" ", "7">>
V_sX == <<" ", "X", " ">>
V_s == <<" ">>
TwoDigitValues == {<<a, b>> : a \in {"0", "1", "2", "5", "9"}, b \in {"0", "1", "2", "5", "9"}}
CallValues ==
    {<<>>, S00, S01, V_05, V_7, V_X, V_AB2, V_0x, V_ABC123, V_ABx123}
        \cup TwoDigitValues \cup {V_123, V_12x, V_x12, V_s7, V_sX, V_s}

\* a field map with the MTI and the given fields; None for a field not captured
BuildFields(mti, v38, v39, v126, with55) ==
    LET keys == {K_MTI} \cup (IF v38 # None THEN {K38} ELSE {})
                        \cup (IF v39 # None THEN {K39} ELSE {})
                        \cup (IF v126 # None THEN {K126} ELSE {})
                        \cup (IF with55 THEN {K55} ELSE {})
    IN [k \in keys |->
            IF k = K_MTI THEN Scalar(mti)
            ELSE IF k = K38 THEN Scalar(v38)
            ELSE IF k = K39 THEN Scalar(v39)
            ELSE IF k = K126 THEN Scalar(v126)
            ELSE Nested(EmptyDict)]

Call38 == {None, <<>>, V_ABC123, V_AB2, V_ABx123}
Call39 == {None, <<>>, S00, V_05}
Call126 == {None, <<>>, V_X}

CallFieldMaps(mti) ==
    {BuildFields(mti, v38, v39, v126, with55) :
        v38 \in Call38, v39 \in Call39, v126 \in Call126, with55 \in BOOLEAN}

CallDetectScheme ==
    /\ pc = "call"
    /\ \E mti \in CallMtis : \E fields \in CallFieldMaps(mti) :
          call' = [op |-> "detect_scheme", field_values |-> fields,
                   result |-> detect_scheme(fields)]
    /\ pc' = "returned"
    /\ UNCHANGED <<data_elements, lineNo, messages, current_message, nested_field,
                   mti_counts, selected_mtis, msgIdx, reports, total_mtis,
                   mtis_with_errors, mtis_clean, tracking>>

CallGetMandatoryFields ==
    /\ pc = "call"
    /\ \E mti \in CallMtis, scheme \in Schemes :
       \E field_values \in CallFieldMaps(mti) \cup {EmptyDict} :
          call' = [op |-> "get_mandatory_fields", mti |-> mti, scheme |-> scheme,
                   field_values |-> field_values,
                   result |-> get_mandatory_fields(data_elements, mti, scheme, field_values)]
    /\ pc' = "returned"
    /\ UNCHANGED <<data_elements, lineNo, messages, current_message, nested_field,
                   mti_counts, selected_mtis, msgIdx, reports, total_mtis,
                   mtis_with_errors, mtis_clean, tracking>>

CallValidateField ==
    /\ pc = "call"
    /\ \E field_num \in {K25, K38, K39, K42}, value \in CallValues, mti \in CallMtis,
          scheme \in Schemes :
       \E field_values \in {EmptyDict, BuildFields(mti, None, S00, None, FALSE),
                            BuildFields(mti, None, V_05, None, FALSE)} :
          call' = [op |-> "validate_field", field_num |-> field_num, value |-> value,
                   mti |-> mti, scheme |-> scheme, field_values |-> field_values,
                   result |-> validate_field(data_elements, field_num, str(Len(value)),
                                             value, mti, scheme, field_values)]
    /\ pc' = "returned"
    /\ UNCHANGED <<data_elements, lineNo, messages, current_message, nested_field,
                   mti_counts, selected_mtis, msgIdx, reports, total_mtis,
                   mtis_with_errors, mtis_clean, tracking>>

\* the body of the validation loop on one transactional message
CallValidate ==
    /\ pc = "call"
    /\ \E mti \in CallMtis \ {M0800} : \E fields \in CallFieldMaps(mti) :
          call' = [op |-> "validate", result |-> Validate(1, Message(mti, fields))]
    /\ pc' = "returned"
    /\ UNCHANGED <<data_elements, lineNo, messages, current_message, nested_field,
                   mti_counts, selected_mtis, msgIdx, reports, total_mtis,
                   mtis_with_errors, mtis_clean, tracking>>

InitCall ==
    /\ data_elements \in CallTables
    /\ pc = "call"
    /\ lineNo = 0
    /\ messages = <<>>
    /\ current_message = 0
    /\ nested_field = None
    /\ mti_counts = <<>>
    /\ selected_mtis = {}
    /\ msgIdx = 0
    /\ reports = <<>>
    /\ total_mtis = 0
    /\ mtis_with_errors = 0
    /\ mtis_clean = 0
    /\ call = NoCall
    /\ tracking = Tracking("start", None)

NextCall ==
    \/ CallDetectScheme
    \/ CallGetMandatoryFields
    \/ CallValidateField
    \/ CallValidate

SpecCall == InitCall /\ [][NextCall]_vars

-----------------------------------------------------------------------------
(* Properties *)

Range(seq) == {seq[i] : i \in 1..Len(seq)}

\* field f of the report's message holds the str s
Holds(r, f, s) ==
    f \in DOMAIN r.field_values /\ r.field_values[f].t = "Scalar" /\ r.field_values[f].v = s

\* the table marks field f mandatory for the MTI, or for "all"
MarkedMandatory(table, f, mti) ==
    \E i \in 1..Len(table) :
        /\ table[i].num = f
        /\ \/ (K_all \in DOMAIN table[i].rule.Usage /\ table[i].rule.Usage[K_all] = "M")
           \/ (mti \in DOMAIN table[i].rule.Usage /\ table[i].rule.Usage[mti] = "M")

\* the report records a failure for field f
HasFailure(r, f) ==
    \/ \E j \in 1..Len(r.errors) : r.errors[j].Field = f
    \/ \E j \in 1..Len(r.mandatory_data) :
          /\ r.mandatory_data[j].Field = f
          /\ r.mandatory_data[j].Validation \notin {"Passed", "Nested field captured"}

\* the report records a missing-field issue for field f
HasMissingIssue(r, f) ==
    \E j \in 1..Len(r.errors) :
        r.errors[j].Field = f /\ r.errors[j].Issue = "Missing mandatory field"

ApprovalMtis == {M0210, M0230, M0430}

\* C1 (as claimed): a Visa message with MTI 0210, field 39 = "00" and field 38
\* not captured, validated against a table that marks field 38 mandatory, has
\* field 38 in the resolver's result and a missing-field issue for field 38.
C1_MissingField38Reported ==
    \A j \in 1..Len(reports) :
        LET r == reports[j] IN
        ( /\ r.scheme = "Visa"
          /\ r.mti = M0210
          /\ Holds(r, K39, S00)
          /\ K38 \notin DOMAIN r.field_values
          /\ MarkedMandatory(data_elements, K38, r.mti) )
        => (K38 \in Range(r.resolved) /\ HasMissingIssue(r, K38))

\* C2 (as claimed): in a validated Visa message with MTI 0210, 0230 or 0430 and
\* field 39 = "00", a captured non-empty field 38 that is not exactly 6
\* alphanumeric characters gets a failure verdict.
C2_Field38RuleEnforced ==
    \A j \in 1..Len(reports) :
        LET r == reports[j] IN
        ( /\ r.scheme = "Visa"
          /\ r.mti \in ApprovalMtis
          /\ Holds(r, K39, S00)
          /\ K38 \in Range(r.mandatory_fields)
          /\ r.field_values[K38].t = "Scalar"
          /\ r.field_values[K38].v # <<>>
          /\ ~(Len(r.field_values[K38].v) = 6 /\ isalnum(r.field_values[K38].v)) )
        => HasFailure(r, K38)

\* the case of C3: a Visa message outside the approved responses
NotApprovedVisa(r) ==
    r.scheme = "Visa" /\ (r.mti \notin ApprovalMtis \/ ~Holds(r, K39, S00))

\* C3 (as claimed): for a Visa message whose MTI is not 0210, 0230 or 0430 or
\* whose field 39 is not "00", validation records no failure for field 38,
\* whatever its value, also when it is empty or the field is absent.
C3_NoFailureOutsideApproval ==
    \A j \in 1..Len(reports) :
        NotApprovedVisa(reports[j]) => ~HasFailure(reports[j], K38)

\* C3 (amended): for such a message validation records no failure for field 38
\* when field 39 is not "00", when field 38 is absent, or when its value is not
\* empty; a field 38 captured with an empty value beside field 39 = "00" is
\* reported as a missing mandatory field where the table marks it mandatory.
C3_NoFailureUnlessEmpty ==
    \A j \in 1..Len(reports) :
        LET r == reports[j] IN
        NotApprovedVisa(r) =>
            /\ ( \/ ~Holds(r, K39, S00)
                 \/ K38 \notin DOMAIN r.field_values
                 \/ ~Holds(r, K38, <<>>) ) => ~HasFailure(r, K38)
            /\ ( /\ Holds(r, K39, S00)
                 /\ Holds(r, K38, <<>>)
                 /\ MarkedMandatory(data_elements, K38, r.mti) ) => HasMissingIssue(r, K38)

\* a Visa message with MTI 0110 and field 39 = "00" whose field 38, not 6
\* characters long, was validated and passed
C3_Witness ==
    \E j \in 1..Len(reports) :
        LET r == reports[j] IN
        /\ r.scheme = "Visa" /\ r.mti = M0110 /\ Holds(r, K39, S00)
        /\ Holds(r, K38, V_AB2)
        /\ K38 \in Range(r.mandatory_fields)
        /\ ~HasFailure(r, K38)

\* C4 (as claimed): once a field of a message is recorded as Nested, no later
\* line of the same message turns it into a Scalar.
C4_NestedNeverDowngraded ==
    [][\A i \in 1..Len(messages) : \A k \in DOMAIN messages[i].fields :
          messages[i].fields[k].t = "Nested" => messages'[i].fields[k].t = "Nested"]_vars

\* the number of mandatory fields of the report whose value is a dict
NestedCount(r) ==
    Cardinality({j \in 1..Len(r.mandatory_fields) :
                    r.field_values[r.mandatory_fields[j]].t = "Nested"})

\* C5 (as claimed): at the end of a message's validation passed + failed equals
\* the available count.
C5_PassedPlusFailedIsAvailable ==
    \A j \in 1..Len(reports) :
        reports[j].passed_count + reports[j].failed_count = reports[j].available_count

\* C5 (amended): at the end of a message's validation passed + failed equals
\* available + missing, every missing field being counted as failed and every
\* nested field as both available and passed; so passed + failed equals the
\* available count exactly when no mandatory field is missing.
C5_PassedPlusFailedIsAvailablePlusMissing ==
    \A j \in 1..Len(reports) :
        LET r == reports[j] IN
        /\ r.passed_count + r.failed_count = r.available_count + r.missing_count
        /\ r.failed_count >= r.missing_count
        /\ r.passed_count >= NestedCount(r)
        /\ r.available_count >= NestedCount(r)
        /\ (r.passed_count + r.failed_count = r.available_count) <=> (r.missing_count = 0)

\* a report with a nested field and a missing field
C5_Witness ==
    \E j \in 1..Len(reports) :
        reports[j].missing_count > 0 /\ NestedCount(reports[j]) > 0

\* C6: the number of mandatory fields reported for a message equals its
\* available count plus its missing count.
C6_MandatoryIsAvailablePlusMissing ==
    \A j \in 1..Len(reports) :
        Len(reports[j].mandatory_fields)
            = reports[j].available_count + reports[j].missing_count

\* a report with a nested, a scalar and a missing mandatory field
C6_Witness ==
    \E j \in 1..Len(reports) :
        /\ reports[j].missing_count > 0
        /\ NestedCount(reports[j]) > 0
        /\ reports[j].available_count > NestedCount(reports[j])

NetworkManagementMtis == {M0800, M0810, M0820}

\* the messages the validation loop has taken that are not network management
Transactional ==
    {j \in 1..msgIdx : filtered_messages[j].mti \notin NetworkManagementMtis}

\* C7: a message with MTI 0800, 0810 or 0820 is counted in the MTI counts, but
\* has no report and adds nothing to the total, clean and with-errors totals.
C7_NetworkManagementExcluded ==
    pc \in {"validate", "done"} =>
        /\ \A i \in 1..Len(messages) :
              messages[i].mti \in NetworkManagementMtis =>
                  /\ messages[i].mti \in DOMAIN mti_counts
                  /\ mti_counts[messages[i].mti]
                        = Cardinality({k \in 1..Len(messages) :
                                          messages[k].mti = messages[i].mti})
        /\ \A j \in 1..Len(reports) : reports[j].mti \notin NetworkManagementMtis
        /\ {reports[j].i : j \in 1..Len(reports)} = Transactional
        /\ total_mtis = Cardinality(Transactional)
        /\ mtis_clean + mtis_with_errors = Cardinality(Transactional)

\* the loop has taken a selected 0800 message that carries fields, and a
\* transactional message
C7_Witness ==
    /\ pc = "done"
    /\ \E j \in 1..msgIdx :
          /\ filtered_messages[j].mti = M0800
          /\ K39 \in DOMAIN filtered_messages[j].fields
    /\ total_mtis = 1

\* C8: where the table marks field 38 mandatory for the MTI or for "all", the
\* resolver's result for Visa contains field 38 iff field 39 is captured and is
\* "00", and for Mastercard always; a Visa message with a decline such as "05"
\* gets no failure for field 38.
C8_Field38Conditional ==
    /\ (pc = "returned" /\ call.op = "get_mandatory_fields"
          /\ MarkedMandatory(data_elements, K38, call.mti)) =>
          /\ call.scheme = "Visa" =>
                (K38 \in Range(call.result) <=>
                    (K39 \in DOMAIN call.field_values
                        /\ call.field_values[K39] = Scalar(S00)))
          /\ call.scheme = "Mastercard" => K38 \in Range(call.result)
    /\ (pc = "returned" /\ call.op = "validate" /\ call.result.scheme = "Visa"
          /\ ~Holds(call.result, K39, S00)) =>
          /\ K38 \notin Range(call.result.resolved)
          /\ ~HasFailure(call.result, K38)

\* the resolver was called for Visa with a decline and left field 38 out
C8_Witness ==
    /\ pc = "returned" /\ call.op = "get_mandatory_fields"
    /\ MarkedMandatory(data_elements, K38, call.mti)
    /\ call.scheme = "Visa"
    /\ K39 \in DOMAIN call.field_values /\ call.field_values[K39] = Scalar(V_05)
    /\ K38 \notin Range(call.result)
    /\ K39 \in Range(call.result)

\* C9: field 126 is in the resolver's result only if the MTI is 0210, 0110 or
\* 0430, whatever the table says.
C9_Field126OnlyForResponses ==
    (pc = "returned" /\ call.op = "get_mandatory_fields") =>
        (K126 \in Range(call.result) => call.mti \in {M0210, M0110, M0430})

\* the resolver was called with MTI 0200 and a table that marks field 126
\* mandatory for 0200, and left field 126 out
C9_Witness ==
    /\ pc = "returned" /\ call.op = "get_mandatory_fields"
    /\ call.mti = M0200
    /\ MarkedMandatory(data_elements, K126, M0200)
    /\ K126 \notin Range(call.result)

\* C10: scheme detection returns Mastercard iff key "126" is in the field map,
\* and Visa otherwise, whatever the value under "126" and the other fields.
C10_SchemeBy126Key ==
    (pc = "returned" /\ call.op = "detect_scheme") =>
        /\ call.result = "Mastercard" <=> K126 \in DOMAIN call.field_values
        /\ call.result = "Visa" <=> K126 \notin DOMAIN call.field_values

\* detection on a field map with an empty value under "126"
C10_Witness ==
    /\ pc = "returned" /\ call.op = "detect_scheme"
    /\ K126 \in DOMAIN call.field_values
    /\ call.field_values[K126] = Scalar(<<>>)
    /\ call.result = "Mastercard"

-----------------------------------------------------------------------------
(* Properties of the parser loop. A step of the loop on line l is a step   *)
(* that satisfies ParseLine(l).                                            *)
(***************************************************************************)

\* a digit token without its leading zeros (one digit is always kept)
RECURSIVE StripZeros(_)
StripZeros(tok) == IF Len(tok) > 1 /\ Head(tok) = "0" THEN StripZeros(Tail(tok)) ELSE tok

\* l has the shape "FLD (number) (length) [value]"
IsFlatFieldLine(l) == l.fld /\ l.num # None /\ isdigit(l.num) /\ l.len /\ l.br # None

\* l carries one of the literals "FLD (055)", "FLD (062)", "FLD (063)"
IsNestedStartLine(l) ==
    l.fld /\ l.sep = 1 /\ l.num \in {<<"0", "5", "5">>, <<"0", "6", "2">>, <<"0", "6", "3">>}

\* l is read inside a message as a flat field line
FlatFieldCase(l) ==
    /\ ~l.hdr /\ current_message # 0
    /\ IsFlatFieldLine(l) /\ ~IsNestedStartLine(l)
    /\ ~(nested_field # None /\ l.gt)

\* C11: the value of a flat field line inside a message is recorded under the
\* field-number token with its leading zeros stripped, so tokens of the same
\* number ("039", "39") write to the same key of the field map, and
\* normalizing a normalized key returns it unchanged.
C11_KeyIsTokenWithoutLeadingZeros ==
    [][\A l \in Lines : (ParseLine(l) /\ FlatFieldCase(l)) =>
          LET old == messages[current_message].fields
              new == messages'[current_message].fields
              key == StripZeros(l.num)
          IN /\ DOMAIN new = DOMAIN old \cup {key}
             /\ new[key] = Scalar(strip(l.br))
             /\ \A k \in DOMAIN old \ {key} : new[k] = old[k]
             /\ \A l2 \in Lines :
                   (IsFlatFieldLine(l2) /\ int(l2.num) = int(l.num)) =>
                       StripZeros(l2.num) = key
             /\ str(int(key)) = key
             /\ StripZeros(key) = key]_vars

\* field 39 of one message was written from the token "039", field 39 of
\* another from the token "39"
C11_Witness ==
    \E i, j \in 1..Len(messages) :
        /\ K39 \in DOMAIN messages[i].fields /\ messages[i].fields[K39] = Scalar(S00)
        /\ K39 \in DOMAIN messages[j].fields /\ messages[j].fields[K39] = Scalar(S01)

\* l contains "M.T.I" and a bracketed numeric token
IsHeaderLine(l) == l.hdr /\ l.br # None /\ Len(l.br) > 0 /\ \A i \in 1..Len(l.br) : l.br[i] \in DigitChars

\* l has the field start syntax for one of the nested-capable field numbers
IsNestedStartSyntax(l) == IsNestedStartLine(l) /\ l.len

\* l begins with ">" and has the shape "(tag) ... [value]"
IsContinuationLine(l) == l.gt /\ l.tag # None /\ l.br # None

\* l is none of: header line, nested-field start line, continuation line of
\* the active nested field, flat field line
OtherLine(l) ==
    /\ ~IsHeaderLine(l)
    /\ ~IsNestedStartSyntax(l)
    /\ ~(nested_field # None /\ IsContinuationLine(l))
    /\ ~IsFlatFieldLine(l)

\* C13 (as claimed): a line that is no header line, no nested-field start line,
\* no continuation line of the active nested field and no flat field line
\* leaves the whole parser state unchanged: the messages, their field maps and
\* the active nested field.
C13_OtherLineChangesNothing ==
    [][\A l \in Lines : (ParseLine(l) /\ OtherLine(l)) =>
          /\ messages' = messages
          /\ current_message' = current_message
          /\ nested_field' = nested_field]_vars

\* C13 (amended): such a line leaves the message sequence and every field map
\* unchanged; the active nested field stays as it is or, only when the line
\* contains "FLD" and does not begin with ">", is ended (none is active after).
C13_OtherLineOnlyEndsNesting ==
    [][\A l \in Lines : (ParseLine(l) /\ OtherLine(l)) =>
          /\ messages' = messages
          /\ current_message' = current_message
          /\ \/ nested_field' = nested_field
             \/ (nested_field' = None /\ l.fld /\ ~l.gt)]_vars

\* the nesting of field 55 was ended by a line that is no flat field line
C13_Witness ==
    /\ tracking = [by |-> "other", n |-> K55]
    /\ nested_field = None
    /\ messages[current_message].fields[K55].t = "Nested"

\* C14 (as claimed): a line that begins with ">" and has the "(tag) ... [value]"
\* shape, read while no nested field is active, changes no message's field map.
C14_ContinuationWithoutNestingDropped ==
    [][\A l \in Lines : (ParseLine(l) /\ IsContinuationLine(l) /\ nested_field = None) =>
          messages' = messages]_vars

\* C15: once a header line has started a successor message, no later line
\* changes the mti, the field map or a nested sub-map of an earlier message.
C15_EarlierMessagesFrozen ==
    [][/\ Len(messages') >= Len(messages)
       /\ \A i \in 1..Len(messages) :
             i < Len(messages) => messages'[i] = messages[i]]_vars

\* the first message was left with its nested field 55 when the second began,
\* and the second has recorded a field since
C15_Witness ==
    /\ Len(messages) = 2
    /\ K55 \in DOMAIN messages[1].fields /\ messages[1].fields[K55].t = "Nested"
    /\ DOMAIN messages[2].fields # {K_MTI}

\* C16 (as claimed): a header line always resets nested-field tracking; if a
\* nested field was active before it, the ">" lines that follow it modify no
\* message until a nested-field start line occurs in the new message.
C16_HeaderResetsNesting ==
    [][\A l \in Lines : ParseLine(l) =>
          /\ IsHeaderLine(l) => nested_field' = None
          /\ (tracking.by = "header_reset" /\ l.gt) => messages' = messages]_vars

\* C17 (as claimed): while a nested field n is active, a flat field line that
\* does not begin with ">" and is no nested-field start line ends nesting and
\* records its own scalar value on that line; ">" lines after it no longer
\* change the sub-map of field n.
C17_FlatFieldEndsNesting ==
    [][\A l \in Lines : ParseLine(l) =>
          /\ ( /\ nested_field # None /\ ~l.hdr
               /\ IsFlatFieldLine(l) /\ ~l.gt /\ ~IsNestedStartLine(l) ) =>
                  /\ nested_field' = None
                  /\ StripZeros(l.num) \in DOMAIN messages'[current_message].fields
                  /\ messages'[current_message].fields[StripZeros(l.num)]
                        = Scalar(strip(l.br))
          /\ ( /\ tracking.by = "field" /\ l.gt
               /\ tracking.n \in DOMAIN messages[current_message].fields
               /\ messages[current_message].fields[tracking.n].t = "Nested" ) =>
                  messages'[current_message].fields[tracking.n]
                      = messages[current_message].fields[tracking.n]]_vars

\* C18: at every point of the scan the message list holds one message per
\* header line read so far, in their order, each with the bracketed digits as
\* its mti; it is empty before the first header line, so that field lines
\* before any header are recorded nowhere.
C18_OneMessagePerHeader ==
    /\ messages = <<>>
    /\ [][\A l \in Lines : ParseLine(l) =>
            IF IsHeaderLine(l)
            THEN /\ Len(messages') = Len(messages) + 1
                 /\ messages'[Len(messages')].mti = l.br
                 /\ \A i \in 1..Len(messages) : messages'[i].mti = messages[i].mti
            ELSE /\ Len(messages') = Len(messages)
                 /\ \A i \in 1..Len(messages) : messages'[i].mti = messages[i].mti]_vars

\* four lines were read, two of them headers, and a line without a bracketed
\* number or before the first header left no message
C18_Witness ==
    /\ lineNo = 4
    /\ Len(messages) = 2
    /\ messages[1].mti = M0800 /\ messages[2].mti = M0210
    /\ DOMAIN messages[1].fields = {K_MTI}
    /\ DOMAIN messages[2].fields = {K_MTI}

-----------------------------------------------------------------------------
(* Properties of validate_field *)

\* the rule of field f in the table is the given one
HasRule(table, f, length, format, usage) ==
    \E i \in 1..Len(table) :
        table[i].num = f /\ table[i].rule = [Length |-> length, Format |-> format,
                                             Usage |-> usage]

\* C12: with a rule for field 39 that is mandatory for "all", of length 2 and
\* numeric, the validator returns no issue for "00", "01" and "02" and an
\* invalid-response-code issue for every other two-digit value.
C12_ResponseCodes ==
    ( /\ pc = "returned" /\ call.op = "validate_field"
      /\ call.field_num = K39
      /\ HasRule(data_elements, K39, <<"2">>, "n", [k \in {K_all} |-> "M"])
      /\ Len(call.value) = 2
      /\ \A i \in 1..2 : call.value[i] \in DigitChars )
    => /\ call.value \in {S00, S01, S02} => call.result = "None"
       /\ call.value \notin {S00, S01, S02} => call.result = "Invalid response code"

\* the validator was called on field 39 with "05" and returned the issue
C12_Witness ==
    /\ pc = "returned" /\ call.op = "validate_field" /\ call.field_num = K39
    /\ call.value = V_05
    /\ call.result = "Invalid response code"

\* the trimmed value begins with two digits, or is a single digit
TwoLeadingDigits(value) ==
    LET t == strip(value) IN
    \/ Len(t) >= 2 /\ t[1] \in DigitChars /\ t[2] \in DigitChars
    \/ Len(t) = 1 /\ t[1] \in DigitChars

\* C19: for field 25 with a rule and a non-empty value, validate_field returns
\* no issue exactly when the trimmed value begins with two digits or is a
\* single digit, whatever length and format the rule declares.
C19_Field25TwoLeadingDigits ==
    ( /\ pc = "returned" /\ call.op = "validate_field"
      /\ call.field_num = K25
      /\ \E i \in 1..Len(data_elements) : data_elements[i].num = K25
      /\ call.value # <<>> ) =>
        (call.result = NoIssue <=> TwoLeadingDigits(call.value))

\* " 7" is trimmed and padded to "07" and passes, under a rule of length 2
C19_Witness ==
    /\ pc = "returned" /\ call.op = "validate_field"
    /\ call.field_num = K25 /\ call.value = V_s7
    /\ HasRule(data_elements, K25, <<"2">>, "n", [k \in {K_all} |-> "M"])
    /\ call.result = NoIssue

-----------------------------------------------------------------------------
(* Properties of the global summary *)

\* the report has a verdict that is a failure
HasFailureVerdict(r) ==
    \E j \in 1..Len(r.mandatory_data) :
        r.mandatory_data[j].Validation \notin {"Passed", "Nested field captured"}

\* C20: the number of transactional messages validated equals the clean count
\* plus the with-errors count, and a message is counted with errors exactly
\* when one of its field verdicts is a failure (its failed count is positive).
C20_CleanPlusErrorsIsTotal ==
    /\ total_mtis = Cardinality(Transactional)
    /\ total_mtis = mtis_clean + mtis_with_errors
    /\ Len(reports) = total_mtis
    /\ mtis_with_errors = Cardinality({j \in 1..Len(reports) : HasFailureVerdict(reports[j])})
    /\ \A j \in 1..Len(reports) : HasFailureVerdict(reports[j]) <=> reports[j].failed_count > 0

\* the run has ended with one clean message and one message with errors
C20_Witness ==
    /\ pc = "done"
    /\ mtis_clean = 1 /\ mtis_with_errors = 1
    /\ \E j \in 1..Len(reports) :
          \E k \in 1..Len(reports[j].mandatory_data) :
              reports[j].mandatory_data[k].Validation
                  \notin {"Passed", "Nested field captured", "Missing mandatory field"}

====
